---------------------------- MODULE Spec2Model ----------------------------
(***************************************************************************)
(* A model of cryojax's coordinate grids (coordinates/_coordinates.py),    *)
(* the circular mask (image/operators/_masks.py) and the ice models        *)
(* (simulator/_ice.py).                                                    *)
(*                                                                         *)
(* Arrays are records [kind |-> "array", shape, data]: shape is the tuple  *)
(* of axis lengths and data maps every 0-based index tuple to its value.   *)
(* Real numbers are exact rationals <<numerator, denominator>> in lowest   *)
(* terms; a zero denominator stands for the non-finite floats (<<1,0>> is  *)
(* inf, <<-1,0>> is -inf, <<0,0>> is nan).  A raised exception is a        *)
(* record [kind |-> "error", type].                                        *)
(***************************************************************************)
EXTENDS Integers, Sequences, FiniteSets, TLC

VARIABLES
    call,       \* the last operation called, with its arguments
    ret,        \* what that call returned: an array or a raised error
    calls1d,    \* the arguments of each _make_coordinates_or_frequencies_1d
                \* call made by the last operation, in order
    prev        \* the call made before the last one, with what it returned

vars == <<call, ret, calls1d, prev>>

----------------------------------------------------------------------------
(* Bounds of the model. *)

\* Every axis length is in 1..MaxSize.
MaxSize == 4
\* Grid spacings are the integers -MaxSpacing..MaxSpacing.
MaxSpacing == 2

----------------------------------------------------------------------------
(* Exact rational arithmetic, with the IEEE special values. *)

Abs(x) == IF x < 0 THEN -x ELSE x

Sign(x) == IF x > 0 THEN 1 ELSE IF x < 0 THEN -1 ELSE 0

RECURSIVE GCD(_, _)
GCD(a, b) == IF b = 0 THEN a ELSE GCD(b, a % b)

\* n/d in lowest terms with a non-negative denominator.
Q(n, d) ==
    IF d = 0 THEN <<Sign(n), 0>>
    ELSE LET g == GCD(Abs(n), Abs(d))
         IN  <<Sign(d) * (n \div g), Abs(d) \div g>>

Rat(n) == <<n, 1>>
Zero == Rat(0)
One == Rat(1)
NaN == <<0, 0>>

IsFinite(a) == a[2] # 0
IsNaN(a) == a = NaN

RatMul(a, b) == Q(a[1] * b[1], a[2] * b[2])
RatDiv(a, b) == Q(a[1] * b[2], a[2] * b[1])
RatAdd(a, b) ==
    IF a[2] = 0 /\ b[2] = 0 THEN (IF a = b THEN a ELSE NaN)
    ELSE Q(a[1] * b[2] + b[1] * a[2], a[2] * b[2])
RatNeg(a) == <<-a[1], a[2]>>
RatSub(a, b) == RatAdd(a, RatNeg(b))

\* IEEE comparisons: every comparison with nan is false.
RatLt(a, b) ==
    /\ ~IsNaN(a) /\ ~IsNaN(b)
    /\ IF a[2] = 0 /\ b[2] = 0 THEN a[1] < b[1]
       ELSE a[1] * b[2] < b[1] * a[2]
RatLeq(a, b) == ~IsNaN(a) /\ ~IsNaN(b) /\ (a = b \/ RatLt(a, b))
RatGt(a, b) == RatLt(b, a)

----------------------------------------------------------------------------
(* Arrays. *)

\* The 0-based index tuples of an array of the given shape.
RECURSIVE MaxOf(_)
MaxOf(s) == IF Len(s) = 0 THEN 0
            ELSE LET m == MaxOf(Tail(s)) IN IF Head(s) > m THEN Head(s) ELSE m

Indices(shape) ==
    {idx \in [1..Len(shape) -> 0..(MaxOf(shape) - 1)] :
        \A i \in 1..Len(shape) : idx[i] < shape[i]}

Array(shape, f(_)) ==
    [kind |-> "array", shape |-> shape, data |-> [idx \in Indices(shape) |-> f(idx)]]

\* body(x), with x evaluated once.
Bind(x, body(_)) == CHOOSE r \in {body(v) : v \in {x}} : TRUE

Error(type) == [kind |-> "error", type |-> type]

IsArray(r) == r.kind = "array"
IsError(r) == r.kind = "error"

\* shape[0:-1]
ButLast(s) == SubSeq(s, 1, Len(s) - 1)

----------------------------------------------------------------------------
(* jnp.fft: fftfreq, rfftfreq and fftshift, as the helpers call them. *)

\* The integer sample index at position i of fftfreq(n): 0, 1, ...,
\* (n-1)//2, -(n//2), ..., -1.
FftIndex(n, i) == IF i < ((n - 1) \div 2) + 1 THEN i ELSE i - n

\* jnp.fft.fftfreq(n, d) = k / (d * n); a zero d * n divides by zero
\* without raising.
fftfreq(n, d) ==
    Array(<<n>>, LAMBDA idx : RatDiv(Rat(FftIndex(n, idx[1])), RatMul(d, Rat(n))))

\* Mutant: the full axis where the half axis is asked for.
rfftfreq_FullAxis(n, d) == fftfreq(n, d)

\* jnp.fft.rfftfreq(n, d) = arange(0, n//2 + 1) / (d * n)
rfftfreq(n, d) ==
    Array(<<(n \div 2) + 1>>, LAMBDA idx : RatDiv(Rat(idx[1]), RatMul(d, Rat(n))))

\* jnp.fft.fftshift(x, axes): roll every axis in axes (0-based) by half its
\* length.
fftshift(x, axes) ==
    Bind(x, LAMBDA xv :
        Array(xv.shape,
              LAMBDA idx : xv.data[[a \in 1..Len(xv.shape) |->
                                      IF (a - 1) \in axes
                                      THEN (idx[a] - (xv.shape[a] \div 2)) % xv.shape[a]
                                      ELSE idx[a]]]))

\* array * scalar
Scale(x, s) ==
    Bind(x, LAMBDA xv : Array(xv.shape, LAMBDA idx : RatMul(xv.data[idx], s)))

----------------------------------------------------------------------------
(* _make_coordinates_or_frequencies_1d *)

\* A grid spacing argument: a Python float, or an array scalar (is_array).
\* Python's 1 / dx raises ZeroDivisionError for the float 0.0, and is inf
\* for an array holding 0.
Reciprocal(gs) ==
    IF gs.val = 0 /\ ~gs.is_array THEN Error("ZeroDivisionError")
    ELSE [kind |-> "scalar", val |-> RatDiv(One, Rat(gs.val))]

\* Mutant: no test for None, the selector read by its truth value alone, so
\* a missing selector picks fftfreq.
make_1d_NoneAsFalse(size, grid_spacing, real_space, selector) ==
    IF real_space
    THEN Bind(Reciprocal(grid_spacing), LAMBDA inv :
             IF IsError(inv) THEN inv
             ELSE Scale(fftshift(fftfreq(size, inv.val), {0}), Rat(size)))
    ELSE IF selector = "True" THEN rfftfreq(size, Rat(grid_spacing.val))
    ELSE fftfreq(size, Rat(grid_spacing.val))

\* The selector rfftfreq is "True", "False" or "None" (Optional[bool]).
_make_coordinates_or_frequencies_1d(size, grid_spacing, real_space, selector) ==
    IF real_space
    THEN Bind(Reciprocal(grid_spacing), LAMBDA inv :
             IF IsError(inv) THEN inv
             ELSE Scale(fftshift(fftfreq(size, inv.val), {0}), Rat(size)))
    ELSE IF selector = "None" THEN Error("ValueError")
    ELSE IF selector = "True" THEN rfftfreq(size, Rat(grid_spacing.val))
    ELSE fftfreq(size, Rat(grid_spacing.val))

----------------------------------------------------------------------------
(* _make_coordinates_or_frequencies *)

\* shape = (*shape[:2][::-1], *shape[2:]) if indexing == "xy" else shape
SwapForIndexing(shape, indexing) ==
    IF indexing = "xy" /\ Len(shape) >= 2
    THEN <<shape[2], shape[1]>> \o SubSeq(shape, 3, Len(shape))
    ELSE shape

\* Mutant: the 2D case not told apart, the last axis is always the half one.
RfftfreqFor_LastAxisAlways(idx, ndim, half_space, indexing) ==
    IF ~half_space THEN "False"
    ELSE (IF idx < ndim - 1 THEN "False" ELSE "True")

\* The rfftfreq argument passed for the 0-based axis idx in frequency mode.
RfftfreqFor(idx, ndim, half_space, indexing) ==
    IF ~half_space THEN "False"
    ELSE IF indexing = "xy" /\ ndim = 2
         THEN (IF idx = 0 THEN "True" ELSE "False")
         ELSE (IF idx < ndim - 1 THEN "False" ELSE "True")

\* The arguments of the 1D call for axis idx; the real-space call leaves
\* rfftfreq at its default None.
Call1D(shape, idx, grid_spacing, real_space, half_space, indexing) ==
    [size |-> SwapForIndexing(shape, indexing)[idx + 1],
     grid_spacing |-> grid_spacing,
     real_space |-> real_space,
     rfftfreq |-> IF real_space THEN "None"
                  ELSE RfftfreqFor(idx, Len(shape), half_space, indexing)]

\* The loop over the axes: each 1D call with what it returns.
Loop1D(shape, grid_spacing, real_space, half_space, indexing) ==
    [i \in 1..Len(shape) |->
        Bind(Call1D(shape, i - 1, grid_spacing, real_space, half_space, indexing),
             LAMBDA c :
                 [args |-> c,
                  out |-> _make_coordinates_or_frequencies_1d(
                              c.size, c.grid_spacing, c.real_space, c.rfftfreq)])]

\* The position of the first 1D call that raises, 0 when none does.
FirstError(loop) ==
    Bind({i \in 1..Len(loop) : IsError(loop[i].out)}, LAMBDA bad :
        IF bad = {} THEN 0 ELSE CHOOSE i \in bad : \A j \in bad : i <= j)

\* The 1D calls the loop makes, in order, up to the first that raises.
Calls1D(shape, grid_spacing, real_space, half_space, indexing) ==
    Bind(Loop1D(shape, grid_spacing, real_space, half_space, indexing), LAMBDA loop :
    Bind(FirstError(loop), LAMBDA bad :
        [i \in 1..(IF bad = 0 THEN Len(loop) ELSE bad) |-> loop[i].args]))

\* Mutant: matrix ("ij") indexing, the k-th input varies along axis k.
MeshAxis_ij(k, ndim, indexing) == k

\* The array axis (0-based) along which meshgrid's k-th input varies.
MeshAxis(k, ndim, indexing) ==
    IF indexing = "xy" /\ ndim >= 2 /\ k < 2 THEN 1 - k ELSE k

\* jnp.stack(jnp.meshgrid(*coords1D, indexing=indexing), axis=-1)
StackMeshgrid(coords1D, indexing) ==
    Bind(Len(coords1D), LAMBDA ndim :
        IF ndim = 0 THEN Error("ValueError")   \* jnp.stack of no arrays
        ELSE Array([a \in 1..ndim |->
                       coords1D[MeshAxis(a - 1, ndim, indexing) + 1].shape[1]]
                       \o <<ndim>>,
                   LAMBDA idx :
                       coords1D[idx[ndim + 1] + 1].data[
                           <<idx[MeshAxis(idx[ndim + 1], ndim, indexing) + 1]>>]))

_make_coordinates_or_frequencies(shape, grid_spacing, real_space, half_space, indexing) ==
    Bind(Loop1D(shape, grid_spacing, real_space, half_space, indexing), LAMBDA loop :
    Bind(FirstError(loop), LAMBDA bad :
        IF bad # 0 THEN loop[bad].out
        ELSE StackMeshgrid([i \in 1..Len(loop) |-> loop[i].out], indexing)))

make_coordinates(shape, grid_spacing) ==
    _make_coordinates_or_frequencies(shape, grid_spacing, TRUE, TRUE, "xy")

make_frequencies(shape, grid_spacing, half_space) ==
    _make_coordinates_or_frequencies(shape, grid_spacing, FALSE, half_space, "xy")


----------------------------------------------------------------------------
(* The grid classes: each stores the returned array in its array field. *)

CoordinateGrid(shape, grid_spacing) == make_coordinates(shape, grid_spacing)

FrequencyGrid(shape, grid_spacing, half_space) ==
    make_frequencies(shape, grid_spacing, half_space)

\* Mutant: the zero entry appended along the second axis, not the last.
PadSecondAxis(x) ==
    Bind(x, LAMBDA xv :
        IF Len(xv.shape) # 3 THEN Error("ValueError")
        ELSE Array(<<xv.shape[1], xv.shape[2] + 1, xv.shape[3]>>,
                   LAMBDA idx : IF idx[2] < xv.shape[2] THEN xv.data[idx] ELSE Zero))

\* jnp.pad(x, ((0, 0), (0, 0), (0, 1)), constant_values=0.0): one more entry,
\* 0.0, at the end of the last of three axes.
PadLastAxis(x) ==
    Bind(x, LAMBDA xv :
        IF Len(xv.shape) # 3 THEN Error("ValueError")
        ELSE Array(<<xv.shape[1], xv.shape[2], xv.shape[3] + 1>>,
                   LAMBDA idx : IF idx[3] < xv.shape[3] THEN xv.data[idx] ELSE Zero))

\* jnp.expand_dims(x, axis=2)
ExpandDims2(x) ==
    Bind(x, LAMBDA xv :
        Array(SubSeq(xv.shape, 1, 2) \o <<1>> \o SubSeq(xv.shape, 3, Len(xv.shape)),
              LAMBDA idx : xv.data[SubSeq(idx, 1, 2) \o SubSeq(idx, 4, Len(idx))]))

\* Mutant: both axes shifted whatever half_space is.
FrequencySlice_ShiftBoth(shape, grid_spacing, half_space) ==
    Bind(make_frequencies(shape, grid_spacing, half_space), LAMBDA made :
        IF IsError(made) THEN made
        ELSE Bind(PadLastAxis(fftshift(made, {0, 1})),
                  LAMBDA padded :
                      IF IsError(padded) THEN padded ELSE ExpandDims2(padded)))

FrequencySlice(shape, grid_spacing, half_space) ==
    Bind(make_frequencies(shape, grid_spacing, half_space), LAMBDA made :
        IF IsError(made) THEN made
        ELSE Bind(PadLastAxis(fftshift(made, IF half_space THEN {0} ELSE {0, 1})),
                  LAMBDA padded :
                      IF IsError(padded) THEN padded ELSE ExpandDims2(padded)))

----------------------------------------------------------------------------
(* The inputs. *)

\* The grid classes declare shapes of up to three dimensions.
MaxDim == 3

Sizes == 1..MaxSize

ShapesOf(ndim) == [1..ndim -> Sizes]

\* make_coordinates and make_frequencies take a shape of any length: every
\* shape of up to MaxDim axes, and the small shapes with one more axis.
Shapes == UNION {ShapesOf(n) : n \in 1..MaxDim} \cup [1..(MaxDim + 1) -> 1..2]

\* The grid classes are declared for 2D and 3D shapes.
GridShapes == {s \in Shapes : Len(s) >= 2}

GridSpacings ==
    {[val |-> v, is_array |-> FALSE] : v \in (0 - MaxSpacing)..MaxSpacing}
        \cup {[val |-> 0, is_array |-> TRUE]}

NoCall == [op |-> "none"]
NoReturn == [kind |-> "none"]

Init ==
    /\ call = NoCall
    /\ ret = NoReturn
    /\ calls1d = <<>>
    /\ prev = [call |-> NoCall, ret |-> NoReturn]

GridCall(op, shape, grid_spacing, half_space) ==
    [op |-> op, shape |-> shape, grid_spacing |-> grid_spacing, half_space |-> half_space]

----------------------------------------------------------------------------
(* The grid operations.  A grid is built once and never mutated, so a      *)
(* behaviour is one construction from the initial state.                   *)

Unbuilt == call = NoCall

MakeCoordinates ==
    \E shape \in Shapes, gs \in GridSpacings :
        /\ Unbuilt
        /\ call' = GridCall("make_coordinates", shape, gs, TRUE)
        /\ ret' = make_coordinates(shape, gs)
        /\ calls1d' = Calls1D(shape, gs, TRUE, TRUE, "xy")
        /\ UNCHANGED prev

MakeFrequencies ==
    \E shape \in Shapes, gs \in GridSpacings, half_space \in BOOLEAN :
        /\ Unbuilt
        /\ call' = GridCall("make_frequencies", shape, gs, half_space)
        /\ ret' = make_frequencies(shape, gs, half_space)
        /\ calls1d' = Calls1D(shape, gs, FALSE, half_space, "xy")
        /\ UNCHANGED prev

NewCoordinateGrid ==
    \E shape \in GridShapes, gs \in GridSpacings :
        /\ Unbuilt
        /\ call' = GridCall("CoordinateGrid", shape, gs, TRUE)
        /\ ret' = CoordinateGrid(shape, gs)
        /\ calls1d' = Calls1D(shape, gs, TRUE, TRUE, "xy")
        /\ UNCHANGED prev

NewFrequencyGrid ==
    \E shape \in GridShapes, gs \in GridSpacings, half_space \in BOOLEAN :
        /\ Unbuilt
        /\ call' = GridCall("FrequencyGrid", shape, gs, half_space)
        /\ ret' = FrequencyGrid(shape, gs, half_space)
        /\ calls1d' = Calls1D(shape, gs, FALSE, half_space, "xy")
        /\ UNCHANGED prev

NewFrequencySlice ==
    \E shape \in ShapesOf(2), gs \in GridSpacings, half_space \in BOOLEAN :
        /\ Unbuilt
        /\ call' = GridCall("FrequencySlice", shape, gs, half_space)
        /\ ret' = FrequencySlice(shape, gs, half_space)
        /\ calls1d' = Calls1D(shape, gs, FALSE, half_space, "xy")
        /\ UNCHANGED prev

Next ==
    \/ MakeCoordinates
    \/ MakeFrequencies
    \/ NewCoordinateGrid
    \/ NewFrequencyGrid
    \/ NewFrequencySlice

Spec == Init /\ [][Next]_vars

----------------------------------------------------------------------------
(* The 1D helper called on its own, beside the two functions that call it  *)
(* through _make_coordinates_or_frequencies.                                *)

\* rfftfreq: Optional[bool] = None
Selectors == {"True", "False", "None"}

AxisCall(size, grid_spacing, real_space, selector) ==
    [op |-> "_make_coordinates_or_frequencies_1d", size |-> size,
     grid_spacing |-> grid_spacing, real_space |-> real_space,
     rfftfreq |-> selector]

MakeAxis1D ==
    \E size \in Sizes, gs \in GridSpacings, real_space \in BOOLEAN,
       selector \in Selectors :
        /\ Unbuilt
        /\ call' = AxisCall(size, gs, real_space, selector)
        /\ ret' = _make_coordinates_or_frequencies_1d(size, gs, real_space, selector)
        /\ calls1d' = <<[size |-> size, grid_spacing |-> gs,
                         real_space |-> real_space, rfftfreq |-> selector]>>
        /\ UNCHANGED prev

NextAxis ==
    \/ MakeAxis1D
    \/ MakeCoordinates
    \/ MakeFrequencies

SpecAxis == Init /\ [][NextAxis]_vars

----------------------------------------------------------------------------
(* image/operators/_masks.py: the circular mask. *)

\* Square roots are taken to 1/Precision.
Precision == 16

RECURSIVE ISqrtIn(_, _, _)
ISqrtIn(n, lo, hi) ==
    IF lo = hi THEN lo
    ELSE IF ((lo + hi + 1) \div 2) * ((lo + hi + 1) \div 2) <= n
         THEN ISqrtIn(n, (lo + hi + 1) \div 2, hi)
         ELSE ISqrtIn(n, lo, ((lo + hi + 1) \div 2) - 1)

\* jnp.sqrt, rounded down to a multiple of 1/Precision.
Sqrt(a) ==
    IF ~IsFinite(a) THEN (IF a[1] > 0 THEN a ELSE NaN)
    ELSE IF a[1] < 0 THEN NaN
    ELSE Bind((a[1] * Precision * Precision) \div a[2], LAMBDA n :
             Q(ISqrtIn(n, 0, n), Precision))

\* The sum of the squares of components 0..c of the grid point idx.
RECURSIVE SumSquares(_, _, _)
SumSquares(x, idx, c) ==
    IF c < 0 THEN Zero
    ELSE RatAdd(SumSquares(x, idx, c - 1),
                RatMul(x.data[idx \o <<c>>], x.data[idx \o <<c>>]))

\* jnp.linalg.norm(x, axis=-1)
Norm(x) ==
    Bind(x, LAMBDA xv :
        Array(ButLast(xv.shape),
              LAMBDA idx : Sqrt(SumSquares(xv, idx, xv.shape[Len(xv.shape)] - 1))))

\* x.max()
ArrayMax(x) ==
    Bind({x.data[idx] : idx \in Indices(x.shape)}, LAMBDA vals :
        IF NaN \in vals THEN NaN
        ELSE CHOOSE m \in vals : \A v \in vals : RatLeq(v, m))

\* cos at the multiples of pi/12 from 0 to pi, in thousandths.
CosTable == <<1000, 966, 866, 707, 500, 259, 0, -259, -500, -707, -866, -966, -1000>>

CosSteps == Len(CosTable) - 1

\* jnp.cos(t * jnp.pi), the angle rounded down to a multiple of pi/12; the
\* cosine of a non-finite angle is nan.
CosPi(t) ==
    IF ~IsFinite(t) THEN NaN
    ELSE Bind(((CosSteps * t[1]) \div t[2]) % (2 * CosSteps), LAMBDA q :
             Q(CosTable[(IF q <= CosSteps THEN q ELSE 2 * CosSteps - q) + 1], 1000))

\* jnp.where(condition, x, y), at one element
Where(condition, x, y) == IF condition THEN x ELSE y

\* Mutant: the rolloff width taken as a fraction of the radius, not of the
\* grid's largest radial coordinate.
ComputeCircularMask_WidthFromRadius(coordinate_grid_in_angstroms, radius, rolloff) ==
    Bind(Norm(coordinate_grid_in_angstroms), LAMBDA coords_norm :
    Bind(RatMul(rolloff, radius), LAMBDA rolloff_width :
        Array(coords_norm.shape, LAMBDA idx :
            Bind(coords_norm.data[idx], LAMBDA r :
                Where(RatLeq(r, RatSub(radius, rolloff_width)), One,
                      Where(RatGt(r, radius), Zero,
                            RatMul(Q(1, 2),
                                   RatAdd(One,
                                          CosPi(RatDiv(RatSub(RatSub(r, radius), rolloff_width),
                                                       rolloff_width))))))))))

_compute_circular_mask(coordinate_grid_in_angstroms, radius, rolloff) ==
    Bind(Norm(coordinate_grid_in_angstroms), LAMBDA coords_norm :
    Bind(RatMul(rolloff, ArrayMax(coords_norm)), LAMBDA rolloff_width :
        Array(coords_norm.shape, LAMBDA idx :
            Bind(coords_norm.data[idx], LAMBDA r :
                \* the second where is applied last, over the first
                Where(RatLeq(r, RatSub(radius, rolloff_width)), One,
                      Where(RatGt(r, radius), Zero,
                            RatMul(Q(1, 2),
                                   RatAdd(One,
                                          CosPi(RatDiv(RatSub(RatSub(r, radius), rolloff_width),
                                                       rolloff_width))))))))))

\* CircularMask.__init__: the buffer field.
CircularMask(coordinate_grid_in_angstroms, radius, rolloff) ==
    _compute_circular_mask(coordinate_grid_in_angstroms, radius, rolloff)

\* Radii are the halves 0, 1/2, ..., MaxRadius/2.
MaxRadius == 6

Radii == {Q(r, 2) : r \in 0..MaxRadius}

\* 0.05 is the default rolloff.
Rolloffs == {Q(-1, 4), Zero, Q(1, 20), Q(1, 4), Q(1, 2), One}

\* Image and small volume grids, as make_coordinates builds them.
MaskShapes == ShapesOf(2) \cup [1..MaxDim -> 1..2]

MaskSpacings == {[val |-> v, is_array |-> FALSE] : v \in 1..MaxSpacing}

NewCircularMask ==
    \E shape \in MaskShapes, gs \in MaskSpacings, radius \in Radii, rolloff \in Rolloffs :
        /\ Unbuilt
        /\ call' = [op |-> "CircularMask",
                    coordinate_grid_in_angstroms |-> make_coordinates(shape, gs),
                    radius |-> radius, rolloff |-> rolloff]
        /\ ret' = CircularMask(make_coordinates(shape, gs), radius, rolloff)
        /\ UNCHANGED <<calls1d, prev>>

NextMask == NewCircularMask

SpecMask == Init /\ [][NextMask]_vars

----------------------------------------------------------------------------
(* simulator/_ice.py: the ice models. *)

Complex(re, im) == [re |-> re, im |-> im]

\* 0.0 + 0.0j
ComplexZero == Complex(Zero, Zero)

\* real * complex
ScaleComplex(v, z) == Complex(RatMul(v, z.re), RatMul(v, z.im))

\* The position of idx in the row-major order of an array of this shape.
RECURSIVE LinearIndex(_, _, _)
LinearIndex(shape, idx, n) ==
    IF n = 0 THEN 0 ELSE LinearIndex(shape, idx, n - 1) * shape[n] + idx[n]

\* One part (0 real, 1 imaginary) of one entry of a draw: a fixed function
\* of the key, the shape and the position, with values in -2..2.
Draw(key, shape, idx, part) ==
    (((key + 1) * 7 + Len(shape) + shape[1]
        + 3 * LinearIndex(shape, idx, Len(shape)) + 2 * part) % 5) - 2

\* jr.normal(key, shape=shape, dtype=complex)
jr_normal(key, shape) ==
    Array(shape, LAMBDA idx : Complex(Rat(Draw(key, shape, idx, 0)),
                                      Rat(Draw(key, shape, idx, 1))))

\* The variance kernels offered to GaussianIce, each a function of the
\* frequency grid: constant, growing with |k|^2, and 1/|k|^2 (infinite at
\* zero frequency).
Kernels == {"flat", "radial", "power_law"}

\* self.variance(frequency_grid_in_angstroms)
Variance(kernel, frequency_grid) ==
    Bind(frequency_grid, LAMBDA grid :
        Array(ButLast(grid.shape), LAMBDA idx :
            Bind(SumSquares(grid, idx, grid.shape[Len(grid.shape)] - 1), LAMBDA k_sqr :
                IF kernel = "flat" THEN One
                ELSE IF kernel = "radial" THEN RatAdd(One, k_sqr)
                ELSE RatDiv(One, k_sqr))))

\* x.at[0, 0].set(value)
AtSet00(x, value) ==
    Bind(x, LAMBDA xv :
        IF Len(xv.shape) < 2 THEN Error("IndexError")
        ELSE Array(xv.shape, LAMBDA idx :
                 IF idx[1] = 0 /\ idx[2] = 0 THEN value ELSE xv.data[idx]))

\* variance * noise, elementwise
Modulate(variance, noise) ==
    Array(noise.shape, LAMBDA idx : ScaleComplex(variance.data[idx], noise.data[idx]))

\* NullIce.sample
NullIce_sample(key, frequency_grid_in_angstroms) ==
    Array(ButLast(frequency_grid_in_angstroms.shape), LAMBDA idx : Zero)

\* The keys the hidden-state mutant draws with: one further for every call
\* made before.
AdvancedKey(key) == key + (IF prev.call.op = "none" THEN 0 ELSE 1)
                        + (IF call.op = "none" THEN 0 ELSE 1)

\* Mutant: the noise drawn from a generator that every call advances, as
\* with a global random state.
GaussianIce_sample_GlobalState(variance, key, frequency_grid_in_angstroms) ==
    Bind(Variance(variance, frequency_grid_in_angstroms), LAMBDA var :
    Bind(jr_normal(AdvancedKey(key), ButLast(frequency_grid_in_angstroms.shape)),
         LAMBDA noise : AtSet00(Modulate(var, noise), ComplexZero)))

\* Mutant: the result of .at[0, 0].set dropped.
GaussianIce_sample_NoSet(variance, key, frequency_grid_in_angstroms) ==
    Bind(Variance(variance, frequency_grid_in_angstroms), LAMBDA var :
    Bind(jr_normal(key, ButLast(frequency_grid_in_angstroms.shape)),
         LAMBDA noise : Modulate(var, noise)))

\* GaussianIce.sample, of the model whose variance field is the kernel
GaussianIce_sample(variance, key, frequency_grid_in_angstroms) ==
    Bind(Variance(variance, frequency_grid_in_angstroms), LAMBDA var :
    Bind(jr_normal(key, ButLast(frequency_grid_in_angstroms.shape)),
         LAMBDA noise : AtSet00(Modulate(var, noise), ComplexZero)))

\* An ice model: its class, and the variance kernel of a GaussianIce.
IceModels ==
    {[class |-> "NullIce", variance |-> "none"]}
        \cup {[class |-> "GaussianIce", variance |-> k] : k \in Kernels}

\* self.sample(key, frequency_grid_in_angstroms)
Sample(self, key, frequency_grid_in_angstroms) ==
    IF self.class = "NullIce" THEN NullIce_sample(key, frequency_grid_in_angstroms)
    ELSE GaussianIce_sample(self.variance, key, frequency_grid_in_angstroms)

\* AbstractCoordinates.get
Get(coordinates) == coordinates.array

\* complex + complex, elementwise
AddComplex(x, y) ==
    Array(x.shape, LAMBDA idx : Complex(RatAdd(x.data[idx].re, y.data[idx].re),
                                        RatAdd(x.data[idx].im, y.data[idx].im)))

\* Mutant: the sampled ice added to the exit-plane image.
AbstractIce_call_AddsImage(self, key, image_at_exit_plane, config) ==
    Bind(Sample(self, key, Get(config.padded_frequency_grid_in_angstroms)), LAMBDA ice :
        IF IsError(ice) THEN ice
        ELSE IF self.class = "NullIce"
             THEN Array(ice.shape, LAMBDA idx :
                      RatAdd(image_at_exit_plane.data[idx].re, ice.data[idx]))
        ELSE AddComplex(image_at_exit_plane, ice))

\* AbstractIce.__call__
AbstractIce_call(self, key, image_at_exit_plane, config) ==
    Sample(self, key, Get(config.padded_frequency_grid_in_angstroms))

\* Seeds are 0..MaxKey.
MaxKey == 1

\* The axes of an image the ice is sampled for are 1..MaxIceSize long.
MaxIceSize == 2

Keys == 0..MaxKey

IceShapes == [1..2 -> 1..MaxIceSize]

UnitSpacing == [val |-> 1, is_array |-> FALSE]

\* The half-space frequency grid of an image of the given shape.
IceGrid(shape) == [array |-> FrequencyGrid(shape, UnitSpacing, TRUE)]

\* ImageConfig: of it, only the padded frequency grid is read.
ImageConfig(padded_shape) == [padded_frequency_grid_in_angstroms |-> IceGrid(padded_shape)]

\* The exit-plane images of a padded shape: every pixel the same value.
ExitPlaneImage(padded_shape, value) ==
    Array(ButLast(Get(IceGrid(padded_shape)).shape), LAMBDA idx : Complex(Rat(value), Zero))

\* A behaviour is up to two calls, the second recorded beside the first.
FewerThanTwoCalls == prev.call.op = "none"

CallSample ==
    \E self \in IceModels, key \in Keys, shape \in IceShapes :
        /\ FewerThanTwoCalls
        /\ call' = [op |-> "sample", self |-> self, key |-> key,
                    frequency_grid_in_angstroms |-> Get(IceGrid(shape))]
        /\ ret' = Sample(self, key, Get(IceGrid(shape)))
        /\ prev' = [call |-> call, ret |-> ret]
        /\ UNCHANGED calls1d

CallRender ==
    \E self \in IceModels, key \in Keys, shape \in IceShapes, value \in {1, 2} :
        /\ FewerThanTwoCalls
        /\ call' = [op |-> "__call__", self |-> self, key |-> key,
                    image_at_exit_plane |-> ExitPlaneImage(shape, value),
                    config |-> ImageConfig(shape)]
        /\ ret' = AbstractIce_call(self, key, ExitPlaneImage(shape, value), ImageConfig(shape))
        /\ prev' = [call |-> call, ret |-> ret]
        /\ UNCHANGED calls1d

NextIce == CallSample \/ CallRender

SpecIce == Init /\ [][NextIce]_vars

----------------------------------------------------------------------------
(* Claims about the grids. *)

FrequencyOps == {"make_frequencies", "FrequencyGrid", "FrequencySlice"}
CoordinateOps == {"make_coordinates", "CoordinateGrid"}
GridOps == FrequencyOps \cup CoordinateOps

\* The 0-based axes whose 1D call was passed rfftfreq=True.
RfftAxes == {idx \in 0..(Len(calls1d) - 1) : calls1d[idx + 1].rfftfreq = "True"}

\* C1: in make_frequencies every axis gets a 1D call, in frequency mode; with
\* half_space=False no axis uses rfftfreq; with half_space=True exactly one
\* does: axis 0 for a 2D shape, the last axis for any other number of
\* dimensions.
C1_AxisSelection ==
    call.op \in FrequencyOps =>
        /\ Len(calls1d) = Len(call.shape)
        /\ \A i \in 1..Len(calls1d) :
               ~calls1d[i].real_space /\ calls1d[i].rfftfreq \in {"True", "False"}
        /\ ~call.half_space => RfftAxes = {}
        /\ (call.half_space /\ Len(call.shape) = 2) => RfftAxes = {0}
        /\ (call.half_space /\ Len(call.shape) # 2) => RfftAxes = {Len(call.shape) - 1}
        /\ call.half_space => Cardinality(RfftAxes) = 1

C1_Witness ==
    /\ call.op = "make_frequencies"
    /\ call.half_space
    /\ Len(call.shape) = 2
    /\ call.shape[1] # call.shape[2]
    /\ calls1d[1].rfftfreq = "True"
    /\ calls1d[1].size = call.shape[2]
    /\ calls1d[2].rfftfreq = "False"

\* The array axis along which component c of an "xy" grid of two or more
\* dimensions varies: x along axis 1, y along axis 0, any further component
\* along its own axis.
AxisOfComponent(c) == IF c = 0 THEN 1 ELSE IF c = 1 THEN 0 ELSE c

\* The component that varies along the last array axis.
LastAxisComponent(ndim) == IF ndim = 2 THEN 0 ELSE ndim - 1

\* C2: for a 2D or 3D shape and a positive spacing, the half-space frequency
\* grid has shape (*shape[:-1], shape[-1]//2 + 1, ndim); the component that
\* varies along the last axis is nowhere negative, no other component varies
\* along that axis, and every component is zero wherever the index along its
\* own axis is 0.
C2_HalfSpaceLastAxis ==
    (/\ call.op \in {"make_frequencies", "FrequencyGrid"}
     /\ call.half_space
     /\ Len(call.shape) \in {2, 3}
     /\ call.grid_spacing.val > 0) =>
        LET ndim == Len(call.shape)
            half == (call.shape[ndim] \div 2) + 1
        IN  /\ IsArray(ret)
            /\ ret.shape = ButLast(call.shape) \o <<half, ndim>>
            /\ \A idx \in Indices(ret.shape) :
                   /\ idx[ndim + 1] = LastAxisComponent(ndim)
                          => RatLeq(Zero, ret.data[idx])
                   /\ idx[ndim + 1] # LastAxisComponent(ndim)
                          => ret.data[idx] = ret.data[[idx EXCEPT ![ndim] = 0]]
                   /\ idx[AxisOfComponent(idx[ndim + 1]) + 1] = 0
                          => ret.data[idx] = Zero

C2_Witness ==
    /\ call.op = "make_frequencies"
    /\ call.half_space
    /\ Len(call.shape) = 3
    /\ call.shape[3] >= 3
    /\ call.grid_spacing.val > 0
    /\ IsArray(ret)
    /\ ret.shape[3] < call.shape[3]
    /\ ret.shape[1] = call.shape[1] /\ ret.shape[1] >= 3
    /\ \E idx \in Indices(ret.shape) : RatLt(ret.data[idx], Zero)

\* C6: for an even N and a positive spacing, make_coordinates((N, N)) has
\* shape (N, N, 2); at index [i, j] component 0 is (j - N/2) * spacing and
\* component 1 is (i - N/2) * spacing.
C6_CenteredCoordinates ==
    (/\ call.op \in CoordinateOps
     /\ Len(call.shape) = 2
     /\ call.shape[1] = call.shape[2]
     /\ call.shape[1] % 2 = 0
     /\ call.grid_spacing.val > 0) =>
        LET N == call.shape[1]
        IN  /\ IsArray(ret)
            /\ ret.shape = <<N, N, 2>>
            /\ \A i \in 0..(N - 1), j \in 0..(N - 1) :
                   /\ ret.data[<<i, j, 0>>] = Rat((j - (N \div 2)) * call.grid_spacing.val)
                   /\ ret.data[<<i, j, 1>>] = Rat((i - (N \div 2)) * call.grid_spacing.val)

C6_Witness ==
    /\ call.op = "make_coordinates"
    /\ call.shape = <<4, 4>>
    /\ call.grid_spacing.val = 2
    /\ IsArray(ret)
    /\ ret.data[<<0, 3, 0>>] = Rat(2)
    /\ ret.data[<<0, 3, 1>>] = Rat(-4)

InvalidArgumentTypes == {"ValueError", "TypeError"}

\* C7: building a grid with a zero or negative grid spacing raises an
\* InvalidArgument-type error and returns no grid.
C7_NonPositiveSpacingRejected ==
    (call.op \in GridOps /\ call.grid_spacing.val <= 0) =>
        IsError(ret) /\ ret.type \in InvalidArgumentTypes

\* C8, as stated: the array of a FrequencySlice has shape (H, W, 1, 3) for
\* both values of half_space (looked at for the positive spacings only).
C8_SliceShapeAsStated ==
    (call.op = "FrequencySlice" /\ call.grid_spacing.val > 0) =>
        IsArray(ret) /\ ret.shape = <<call.shape[1], call.shape[2], 1, 3>>

\* C8, amended: the array of a FrequencySlice has shape (H, W, 1, 3) with
\* half_space=False and (H, W//2 + 1, 1, 3) with half_space=True.
C8_SliceShape ==
    call.op = "FrequencySlice" =>
        /\ IsArray(ret)
        /\ ret.shape = <<call.shape[1],
                         IF call.half_space THEN (call.shape[2] \div 2) + 1
                         ELSE call.shape[2],
                         1, 3>>

C8_Witness ==
    /\ call.op = "FrequencySlice"
    /\ call.half_space
    /\ call.shape = <<3, 4>>
    /\ IsArray(ret)
    /\ ret.shape = <<3, 3, 1, 3>>

\* The grid points of a slice whose in-plane frequency is (0, 0).
ZeroFrequencyPoints ==
    {idx \in Indices(SubSeq(ret.shape, 1, 2)) :
        ret.data[idx \o <<0, 0>>] = Zero /\ ret.data[idx \o <<0, 1>>] = Zero}

\* C9: in a FrequencySlice with a non-zero spacing the z component is zero
\* everywhere, and the one point of in-plane frequency (0, 0) is at index
\* H//2 of axis 0 and, of axis 1, at its center index with half_space=False
\* and at index 0 with half_space=True (axis 1 is not shifted).
C9_SliceCentered ==
    (call.op = "FrequencySlice" /\ call.grid_spacing.val # 0) =>
        /\ IsArray(ret)
        /\ \A idx \in Indices(ret.shape) : idx[4] = 2 => ret.data[idx] = Zero
        /\ ZeroFrequencyPoints =
               {<<call.shape[1] \div 2,
                  IF call.half_space THEN 0 ELSE ret.shape[2] \div 2>>}

C9_Witness ==
    /\ call.op = "FrequencySlice"
    /\ ~call.half_space
    /\ call.shape = <<4, 3>>
    /\ call.grid_spacing.val = 1
    /\ IsArray(ret)
    /\ ZeroFrequencyPoints = {<<2, 1>>}
    /\ ret.data[<<0, 0, 0, 0>>] # Zero
    /\ ret.data[<<0, 0, 0, 1>>] # Zero

----------------------------------------------------------------------------
(* Claims about the circular mask. *)

\* Over the radial distances dist of the voxels and the rolloff width:
InsideFlat(dist, width, idx) == RatLeq(dist.data[idx], RatSub(call.radius, width))
Outside(dist, idx) == RatGt(dist.data[idx], call.radius)
InTaper(dist, width, idx) == ~InsideFlat(dist, width, idx) /\ ~Outside(dist, idx)

MaskProfile(dist, width) ==
    /\ IsArray(ret)
    /\ ret.shape = dist.shape
    /\ \A idx \in Indices(ret.shape) :
           /\ InsideFlat(dist, width, idx) => ret.data[idx] = One
           /\ Outside(dist, idx) => ret.data[idx] = Zero
           /\ InTaper(dist, width, idx) =>
                  /\ RatLeq(Zero, ret.data[idx]) /\ RatLeq(ret.data[idx], One)
                  /\ \A far \in Indices(ret.shape) :
                         (InTaper(dist, width, far)
                              /\ RatLeq(dist.data[idx], dist.data[far]))
                             => RatLeq(ret.data[far], ret.data[idx])
    /\ call.rolloff = Zero =>
           \A idx \in Indices(ret.shape) :
               ret.data[idx] = IF RatLeq(dist.data[idx], call.radius) THEN One ELSE Zero

TaperSeen(dist, width) ==
    /\ \E idx \in Indices(ret.shape) : InsideFlat(dist, width, idx) /\ ret.data[idx] = One
    /\ \E idx \in Indices(ret.shape) : Outside(dist, idx) /\ ret.data[idx] = Zero
    /\ \E near, far \in Indices(ret.shape) :
           /\ InTaper(dist, width, near) /\ InTaper(dist, width, far)
           /\ RatLt(dist.data[near], dist.data[far])
           /\ RatLt(ret.data[far], ret.data[near])
           /\ RatLt(ret.data[near], One) /\ RatLt(Zero, ret.data[far])

----------------------------------------------------------------------------
(* Claims about the ice models. *)

IsGaussian(c) == c.self.class = "GaussianIce"

\* What variance * noise holds at index [0, 0], before it is set to zero.
RawDc ==
    ScaleComplex(
        Variance(call.self.variance, call.frequency_grid_in_angstroms).data[<<0, 0>>],
        jr_normal(call.key, ButLast(call.frequency_grid_in_angstroms.shape)).data[<<0, 0>>])

\* C4: the field GaussianIce.sample returns is 0 + 0i at index [0, 0]; the
\* field NullIce.sample returns has the frequency grid's shape less its last
\* axis and is zero at every index.
C4_DcZeroed ==
    call.op = "sample" =>
        /\ IsArray(ret)
        /\ IsGaussian(call) => ret.data[<<0, 0>>] = ComplexZero
        /\ ~IsGaussian(call) =>
               /\ ret.shape = ButLast(call.frequency_grid_in_angstroms.shape)
               /\ \A idx \in Indices(ret.shape) : ret.data[idx] = Zero

C4_Witness ==
    /\ call.op = "sample"
    /\ IsGaussian(call)
    /\ RawDc # ComplexZero
    /\ IsArray(ret)
    /\ ret.data[<<0, 0>>] = ComplexZero
    /\ \E idx \in Indices(ret.shape) : ret.data[idx] # ComplexZero

SameSampleInputs ==
    /\ call.op = "sample" /\ prev.call.op = "sample"
    /\ IsGaussian(call)
    /\ call.self = prev.call.self
    /\ call.key = prev.call.key
    /\ call.frequency_grid_in_angstroms = prev.call.frequency_grid_in_angstroms

RendersDifferOnlyInImage ==
    /\ call.op = "__call__" /\ prev.call.op = "__call__"
    /\ call.self = prev.call.self
    /\ call.key = prev.call.key
    /\ call.config = prev.call.config
    /\ call.image_at_exit_plane # prev.call.image_at_exit_plane

\* C10: AbstractIce.__call__ returns what sample returns for the key and the
\* config's padded frequency grid, so two calls that differ only in the
\* exit-plane image return the same field.
C10_RenderIsSample ==
    /\ call.op = "__call__" =>
           ret = Sample(call.self, call.key,
                        Get(call.config.padded_frequency_grid_in_angstroms))
    /\ RendersDifferOnlyInImage => ret = prev.ret

C10_Witness ==
    /\ RendersDifferOnlyInImage
    /\ IsGaussian(call)
    /\ IsArray(ret)
    /\ ret = prev.ret
    /\ \E idx \in Indices(ret.shape) : ret.data[idx] # ComplexZero

----------------------------------------------------------------------------
(* Claims about the 1D helper. *)

SelectorMissing(c) == ~c.real_space /\ c.rfftfreq = "None"

RaisedValueError == IsError(ret) /\ ret.type = "ValueError"

\* C11: _make_coordinates_or_frequencies_1d raises ValueError, and returns no
\* axis, when it is called with real_space=False and rfftfreq=None; with
\* real_space=True it never raises ValueError, whatever the selector; and
\* make_coordinates and make_frequencies never make a frequency-mode 1D call
\* without a selector, so they never raise it, for any shape and half_space.
C11_MissingSelectorRaises ==
    /\ call.op = "_make_coordinates_or_frequencies_1d" =>
           /\ SelectorMissing(call) => (RaisedValueError /\ ~IsArray(ret))
           /\ call.real_space => ~RaisedValueError
           /\ (~call.real_space /\ call.rfftfreq # "None" /\ call.grid_spacing.val # 0)
                  => IsArray(ret)
    /\ call.op \in {"make_coordinates", "make_frequencies"} =>
           /\ ~RaisedValueError
           /\ Len(calls1d) >= 1
           /\ \A i \in 1..Len(calls1d) : ~SelectorMissing(calls1d[i])

C11_Witness ==
    /\ call.op = "_make_coordinates_or_frequencies_1d"
    /\ SelectorMissing(call)
    /\ call.size > 1
    /\ RaisedValueError

=============================================================================
